---- MODULE Spec2Model ----
(***************************************************************************)
(* A model of src/app.py, the Streamlit script of the GitHub audit         *)
(* dashboard.  Streamlit re-executes the whole script on every user        *)
(* interaction (a "render pass").  Three specifications are given:         *)
(*                                                                         *)
(*   Spec      the render pass up to the rule multiselect: the time        *)
(*             bucket, the st.cache_data memo of load_data, the three      *)
(*             fetches, the fail-fast error checks, st.session_state and   *)
(*             the preset buttons (app.py lines 29-166);                   *)
(*   RepoSpec  the Repository Analysis tab as a function of the            *)
(*             repository table and the widget inputs (lines 168-289);     *)
(*   SloSpec   the Dependabot part of the SLO Analysis tab as a function   *)
(*             of the alert table and the widget inputs (lines 346-441).   *)
(***************************************************************************)
EXTENDS Integers, Sequences, FiniteSets, TLC

VARIABLES
    clock,            \* wall clock, in ticks of TickMinutes minutes
    cache,            \* st.cache_data memo of load_data: bucket key -> value
    history,          \* ghost: per bucket key, the last pass of the bucket that fetched
    session_state,    \* st.session_state["selected_rules"]
    widget,           \* Streamlit's widget state of the "Select rules" multiselect
    last,             \* what the last render pass did and showed
    df_repositories,  \* RepoSpec: the repository table after line 136
    repo_view,        \* RepoSpec: what the Repository Analysis tab showed
    df_dependabot,    \* SloSpec: the dependency alert table after line 350
    dep_view          \* SloSpec: what the Dependabot section showed

vars == <<clock, cache, history, session_state, widget, last,
          df_repositories, repo_view, df_dependabot, dep_view>>

(***************************************************************************)
(* Bounds of the model.                                                    *)
(***************************************************************************)
MaxTicks == 2
TickMinutes == 5
MaxVersion == 1

(***************************************************************************)
(* Small helpers.                                                          *)
(***************************************************************************)
Range(s) == {s[i] : i \in 1..Len(s)}

InjectiveSeqs(S) ==
    {s \in UNION {[1..n -> S] : n \in 0..Cardinality(S)} :
        \A i, j \in 1..Len(s) : i # j => s[i] # s[j]}

RECURSIVE SelectSeqBy(_, _, _)
\* [x for x in s if x in keep] (keep given as a set), order of s preserved
SelectSeqBy(s, keep, i) ==
    IF i > Len(s) THEN <<>>
    ELSE (IF s[i] \in keep THEN <<s[i]>> ELSE <<>>) \o SelectSeqBy(s, keep, i + 1)

(***************************************************************************)
(* The time bucket (lines 88-94).  strftime("%Y-%m-%d %H:%M") is modelled  *)
(* by the digits that vary within a day: hour, tens of minutes, units of   *)
(* minutes.  The key replaces the last character by "0".                   *)
(***************************************************************************)
strftime(minutes) == <<minutes \div 60, (minutes % 60) \div 10, minutes % 10>>

loading_date(minutes) ==
    LET s == strftime(minutes)
    IN  SubSeq(s, 1, Len(s) - 1) \o <<0>>

now == clock * TickMinutes

BucketKeys == {loading_date(t * TickMinutes) : t \in 0..MaxTicks}

(***************************************************************************)
(* The object store client (lines 29-49).  What the store does on one      *)
(* get_object call is the environment's choice: the call returns a body    *)
(* (body 0 is a body json.loads cannot parse, body v >= 1 is version v of  *)
(* the JSON document) or raises one of botocore's exceptions: ClientError  *)
(* (a service-side error: access denied, no such key, ...) or              *)
(* EndpointConnectionError (the network; a BotoCoreError, which is not a   *)
(* ClientError).                                                           *)
(***************************************************************************)
object_names == <<"repositories.json", "secret_scanning.json", "dependabot.json">>

StoreOutcomes ==
    {[get_object |-> e, body |-> 0] :
        e \in {"ClientError", "EndpointConnectionError"}}
    \cup {[get_object |-> "ok", body |-> b] : b \in 0..MaxVersion}

IsClientError(e) == e = "ClientError"

\* the result of one call: kind "df" (a DataFrame), "str" (the error string,
\* which names the key) or "raise" (an exception leaves the function)
get_table_from_s3(object_name, env) ==
    IF env.get_object # "ok"
    THEN IF IsClientError(env.get_object)
         THEN [kind |-> "str", key |-> object_name, version |-> 0,
               failure |-> env.get_object]
         ELSE [kind |-> "raise", key |-> object_name, version |-> 0,
               failure |-> env.get_object]
    ELSE IF env.body = 0
         THEN [kind |-> "raise", key |-> object_name, version |-> 0,
               failure |-> "JSONDecodeError"]
         ELSE [kind |-> "df", key |-> object_name, version |-> env.body,
               failure |-> "none"]

(***************************************************************************)
(* load_data (lines 51-68), the function body: three fetches in order; an  *)
(* exception of a fetch ends the function there.  calls lists the fetches  *)
(* made, value is the returned triple (<<>> when an exception left).       *)
(***************************************************************************)
load_data_body(envs) ==
    LET r1 == get_table_from_s3(object_names[1], envs[1])
        r2 == get_table_from_s3(object_names[2], envs[2])
        r3 == get_table_from_s3(object_names[3], envs[3])
    IN  IF r1.kind = "raise" THEN [raised |-> TRUE, calls |-> <<r1>>, value |-> <<>>]
        ELSE IF r2.kind = "raise"
             THEN [raised |-> TRUE, calls |-> <<r1, r2>>, value |-> <<>>]
        ELSE IF r3.kind = "raise"
             THEN [raised |-> TRUE, calls |-> <<r1, r2, r3>>, value |-> <<>>]
        ELSE [raised |-> FALSE, calls |-> <<r1, r2, r3>>, value |-> <<r1, r2, r3>>]

NotCached == <<>>

\* @st.cache_data: a key already memoized returns the stored value and the
\* body does not run; otherwise the body runs and, when it returns, its
\* value is stored under the key.  An exception stores nothing.
load_data(load_date, envs) ==
    IF cache[load_date] # NotCached
    THEN [raised |-> FALSE, calls |-> <<>>, value |-> cache[load_date]]
    ELSE load_data_body(envs)

(***************************************************************************)
(* The rule metadata, load_file("rulemap.json") (line 98): an ordered list *)
(* of {name, is_security_rule, is_policy_rule}.  rules is the list of rule *)
(* columns of the repository table (lines 129-133), in lockstep with it.   *)
(***************************************************************************)
rulemap ==
    << [name |-> "rule1", is_security_rule |-> TRUE,  is_policy_rule |-> FALSE],
       [name |-> "rule2", is_security_rule |-> FALSE, is_policy_rule |-> TRUE] >>

rules == <<"rule1", "rule2">>

RECURSIVE RuleNames(_, _)
\* for rule in rulemap: if flag: append(rule["name"])
RuleNames(flag, i) ==
    IF i > Len(rulemap) THEN <<>>
    ELSE (IF flag = "all" \/ (flag = "security" /\ rulemap[i].is_security_rule)
             \/ (flag = "policy" /\ rulemap[i].is_policy_rule)
          THEN <<rulemap[i].name>> ELSE <<>>) \o RuleNames(flag, i + 1)

Selections == InjectiveSeqs(Range(rules))

Unset == [has |-> FALSE, selected_rules |-> <<>>]
Unregistered == [registered |-> FALSE, default |-> <<>>, value |-> <<>>]

\* lines 140-164: the session default, then the preset pressed in this pass
SessionAfterPresets(ss, pressed) ==
    IF pressed = "security" THEN RuleNames("security", 1)
    ELSE IF pressed = "policy" THEN RuleNames("policy", 1)
    ELSE IF ss.has THEN ss.selected_rules
    ELSE RuleNames("all", 1)

\* line 166: st.multiselect("Select rules", rules, default) has no key, so
\* Streamlit identifies the widget by its arguments.  With the arguments of
\* the previous pass it is the same widget and returns the value the
\* browser holds (edited or not); with another default it is a new widget
\* and returns the default.
multiselect(w, default, edited, value) ==
    IF w.registered /\ w.default = default
    THEN (IF edited THEN value ELSE w.value)
    ELSE default

(***************************************************************************)
(* One render pass, lines 88-166.  event is what the user did to cause it, *)
(* envs is what the store answers to each fetch the pass makes.            *)
(***************************************************************************)
NoMessage == [shown_by |-> "none", key |-> "", failure |-> "none"]

NoHistory ==
    [ran |-> FALSE, error_value |-> FALSE, value |-> <<>>, message |-> NoMessage]

NoPass ==
    [ran |-> FALSE, key |-> <<>>, prior |-> NoHistory, event |-> "rerun",
     calls |-> <<>>, value |-> <<>>, outcome |-> "none", message |-> NoMessage,
     selected_rules |-> <<>>]

\* lines 100-110: the first of the three results that is a str
FirstError(value) ==
    IF value[1].kind = "str" THEN 1
    ELSE IF value[2].kind = "str" THEN 2
    ELSE IF value[3].kind = "str" THEN 3
    ELSE 0

\* some fetch of the pass returned the error value
AnyErrorValue(calls) == \E i \in 1..Len(calls) : calls[i].kind = "str"

\* lines 96-166 on the result ld of load_data
RenderPass(key, event, edited, ld) ==
    LET ss0 == IF event = "new_session" THEN Unset ELSE session_state
        w0  == IF event = "new_session" THEN Unregistered ELSE widget
        err == IF ld.raised THEN 0 ELSE FirstError(ld.value)
        default == SessionAfterPresets(ss0, event)
        chosen  == multiselect(w0, default, event = "edit", edited)
        base    == [ran |-> TRUE, key |-> key, prior |-> history[key],
                    event |-> event, calls |-> ld.calls, value |-> ld.value,
                    outcome |-> "none", message |-> NoMessage,
                    selected_rules |-> <<>>]
        pass ==
            IF ld.raised
            THEN \* an uncaught exception: Streamlit shows it and the run ends
                 [base EXCEPT !.outcome = "exception",
                     !.message = [shown_by |-> "exception",
                                  key |-> ld.calls[Len(ld.calls)].key,
                                  failure |-> ld.calls[Len(ld.calls)].failure]]
            ELSE IF err # 0
            THEN \* st.error(df); st.stop()
                 [base EXCEPT !.outcome = "error",
                     !.message = [shown_by |-> "st.error",
                                  key |-> ld.value[err].key,
                                  failure |-> ld.value[err].failure]]
            ELSE [base EXCEPT !.outcome = "dashboard", !.selected_rules = chosen]
    IN  /\ last' = pass
        /\ cache' = IF ld.raised THEN cache ELSE [cache EXCEPT ![key] = ld.value]
        /\ history' = IF ld.calls # <<>>
                      THEN [history EXCEPT ![key] =
                               [ran |-> TRUE, error_value |-> AnyErrorValue(ld.calls),
                                value |-> pass.value, message |-> pass.message]]
                      ELSE history
        /\ session_state' =
              IF pass.outcome = "dashboard"
              THEN [has |-> TRUE, selected_rules |-> default]
              ELSE ss0
        /\ widget' =
              IF pass.outcome = "dashboard"
              THEN [registered |-> TRUE, default |-> default, value |-> chosen]
              ELSE IF pass.outcome = "error"
              THEN Unregistered  \* st.stop(): widgets not rendered lose their state
              ELSE w0            \* exception: the run is cut short, state is kept
        /\ UNCHANGED <<clock, df_repositories, repo_view, df_dependabot, dep_view>>

\* the store's answers to the fetches one pass makes: none on a cache hit,
\* and none after a fetch that raised
StoreAnswers(key) ==
    IF cache[key] # NotCached THEN {<<>>}
    ELSE {<<e1>> : e1 \in {e \in StoreOutcomes :
                              get_table_from_s3(object_names[1], e).kind = "raise"}}
         \cup {<<e1, e2>> : e1 \in {e \in StoreOutcomes :
                              get_table_from_s3(object_names[1], e).kind # "raise"},
                            e2 \in {e \in StoreOutcomes :
                              get_table_from_s3(object_names[2], e).kind = "raise"}}
         \cup {<<e1, e2, e3>> : e1 \in {e \in StoreOutcomes :
                              get_table_from_s3(object_names[1], e).kind # "raise"},
                            e2 \in {e \in StoreOutcomes :
                              get_table_from_s3(object_names[2], e).kind # "raise"},
                            e3 \in StoreOutcomes}

\* the widgets of a pass exist in the browser only after a pass that reached
\* them; an edit changes the value the multiselect holds
UserEvents ==
    {<<t, <<>>>> : t \in {"rerun", "new_session"}}
    \cup (IF last.outcome = "dashboard"
          THEN {<<t, <<>>>> : t \in {"security", "policy"}}
               \cup {<<"edit", v>> : v \in Selections \ {last.selected_rules}}
          ELSE {})

Render ==
    \E ev \in UserEvents :
       \E envs \in StoreAnswers(loading_date(now)) :
          RenderPass(loading_date(now), ev[1], ev[2],
                     load_data(loading_date(now), envs))

Tick ==
    /\ clock < MaxTicks
    /\ clock' = clock + 1
    /\ UNCHANGED <<cache, history, session_state, widget, last,
                   df_repositories, repo_view, df_dependabot, dep_view>>

(***************************************************************************)
(* DataFrames.  A DataFrame is [columns, data]: the column labels in       *)
(* order and the rows in order, each row a tuple aligned with the labels.  *)
(***************************************************************************)
MaxRepos == 2

ColumnIndex(df, label) ==
    CHOOSE j \in 1..Len(df.columns) : df.columns[j] = label

\* df[label] of row i
Cell(df, i, label) == df.data[i][ColumnIndex(df, label)]

\* the columns at the positions idx (a sequence of positions), in that order
TakeColumns(df, idx) ==
    [columns |-> [k \in 1..Len(idx) |-> df.columns[idx[k]]],
     data |-> [i \in 1..Len(df.data) |->
                  [k \in 1..Len(idx) |-> df.data[i][idx[k]]]]]

RECURSIVE PositionsNotIn(_, _, _)
PositionsNotIn(columns, labels, j) ==
    IF j > Len(columns) THEN <<>>
    ELSE (IF columns[j] \in labels THEN <<>> ELSE <<j>>)
         \o PositionsNotIn(columns, labels, j + 1)

\* df.drop(columns=labels): the other columns keep their order
drop(df, labels) == TakeColumns(df, PositionsNotIn(df.columns, Range(labels), 1))

\* df[label] = values: a new last column
WithColumn(df, label, values) ==
    [columns |-> Append(df.columns, label),
     data |-> [i \in 1..Len(df.data) |-> Append(df.data[i], values[i])]]

\* df.columns = labels: the labels are replaced by position
SetColumns(df, labels) == [df EXCEPT !.columns = labels]

RECURSIVE SumSeq(_, _)
SumSeq(s, i) == IF i > Len(s) THEN 0 ELSE s[i] + SumSeq(s, i + 1)

\* int(x.round(0)) of x = num / den >= 0: numpy rounds halves to even
RoundHalfEven(num, den) ==
    LET q == num \div den
        r == num % den
    IN  IF 2 * r < den THEN q
        ELSE IF 2 * r > den THEN q + 1
        ELSE IF q % 2 = 0 THEN q ELSE q + 1

(***************************************************************************)
(* The Repository Analysis tab, lines 168-289, on the repository table as  *)
(* line 136 leaves it: columns repository, repository_type, url and one    *)
(* boolean column per rule (TRUE: the rule is broken).  Repository names   *)
(* are numbers, ordered as the names are ordered lexically.                *)
(***************************************************************************)
RepositoryTypes == {"public", "private", "internal"}
TypeOptions == {"all"} \cup RepositoryTypes

UrlOf(name) == <<"https://github.com", name>>

\* lines 174-176
rules_to_exclude(selected_rules) ==
    SelectSeqBy(rules, Range(rules) \ Range(selected_rules), 1)

\* lines 182-183
FilterByType(df, type_label, repository_type) ==
    IF repository_type # "all"
    THEN LET type == ColumnIndex(df, type_label)
         IN  [df EXCEPT !.data =
                 SelectSeq(df.data, LAMBDA row : row[type] = repository_type)]
    ELSE df

\* the columns of dtype bool: the rule columns
BoolColumns(df) == {j \in 1..Len(df.columns) : df.columns[j] \in Range(rules)}

\* a mutant of is_compliant: all() in place of any()
is_compliant_all(df) ==
    [i \in 1..Len(df.data) |-> ~(\A j \in BoolColumns(df) : df.data[i][j])]

\* lines 187-188: not df.any(axis="columns", bool_only=True)
is_compliant(df) ==
    [i \in 1..Len(df.data) |-> ~(\E j \in BoolColumns(df) : df.data[i][j])]

\* line 191: df[selected_rules].sum(axis="columns")
rules_broken(df, selected_rules) ==
    [i \in 1..Len(df.data) |->
        SumSeq([k \in 1..Len(selected_rules) |->
                   IF Cell(df, i, selected_rules[k]) THEN 1 ELSE 0], 1)]

\* a mutant of SortsBefore: ascending=[True, True]
SortsBeforeAscending(df, a, b) ==
    LET rb == ColumnIndex(df, "rules_broken")
        nm == ColumnIndex(df, "repository")
    IN  \/ a[rb] < b[rb]
        \/ a[rb] = b[rb] /\ a[nm] < b[nm]

\* line 194: by=["rules_broken", "repository"], ascending=[False, True]
SortsBefore(df, a, b) ==
    LET rb == ColumnIndex(df, "rules_broken")
        nm == ColumnIndex(df, "repository")
    IN  \/ a[rb] > b[rb]
        \/ a[rb] = b[rb] /\ a[nm] < b[nm]

RECURSIVE InsertSorted(_, _, _)
InsertSorted(df, sorted, row) ==
    IF sorted = <<>> THEN <<row>>
    ELSE IF SortsBefore(df, row, Head(sorted)) THEN <<row>> \o sorted
    ELSE <<Head(sorted)>> \o InsertSorted(df, Tail(sorted), row)

RECURSIVE SortRows(_, _, _)
SortRows(df, sorted, i) ==
    IF i > Len(df.data) THEN sorted
    ELSE SortRows(df, InsertSorted(df, sorted, df.data[i]), i + 1)

sort_values(df) == [df EXCEPT !.data = SortRows(df, <<>>, 1)]

\* lines 179-197: the table of the compliance view
ComplianceTable(df, selected_rules, repository_type) ==
    LET dropped  == drop(df, rules_to_exclude(selected_rules))
        filtered == FilterByType(dropped, "repository_type", repository_type)
        with_c   == WithColumn(filtered, "is_compliant", is_compliant(filtered))
        with_rb  == WithColumn(with_c, "rules_broken",
                               rules_broken(with_c, selected_rules))
        sorted   == sort_values(with_rb)
    IN  SetColumns(sorted, <<"Repository", "Repository Type", "URL">>
                           \o selected_rules \o <<"Is Compliant", "Rules Broken">>)

\* lines 253-254: df[selected_rules].sum().idxmax(), the first label of the
\* largest sum
MostCommonRule(df, selected_rules) ==
    LET freq == [k \in 1..Len(selected_rules) |->
                    Cardinality({i \in 1..Len(df.data) :
                                    Cell(df, i, selected_rules[k])})]
        k0 == CHOOSE k \in 1..Len(selected_rules) :
                 /\ \A m \in 1..Len(selected_rules) : freq[m] <= freq[k]
                 /\ \A m \in 1..(k - 1) : freq[m] < freq[k]
    IN  selected_rules[k0]

\* lines 225-254
Metrics(df, selected_rules) ==
    [compliant |-> Cardinality({i \in 1..Len(df.data) : Cell(df, i, "Is Compliant")}),
     noncompliant |-> Cardinality({i \in 1..Len(df.data) : ~Cell(df, i, "Is Compliant")}),
     average |-> RoundHalfEven(
                    SumSeq([i \in 1..Len(df.data) |-> Cell(df, i, "Rules Broken")], 1),
                    Len(df.data)),
     most_common |-> MostCommonRule(df, selected_rules)]

NoMetrics == [compliant |-> 0, noncompliant |-> 0, average |-> 0, most_common |-> ""]

\* lines 259-265: the rows with Is Compliant == 0, three columns of them
NonCompliantTable(df) ==
    LET rows == SelectSeq(df.data,
                    LAMBDA row : row[ColumnIndex(df, "Is Compliant")] = FALSE)
    IN  [i \in 1..Len(rows) |->
            <<rows[i][ColumnIndex(df, "Repository")],
              rows[i][ColumnIndex(df, "Repository Type")],
              rows[i][ColumnIndex(df, "Rules Broken")]>>]

NoDrill == [shown |-> FALSE, repository |-> 0, type |-> "", url |-> <<>>, rules |-> <<>>]

\* lines 268-283: row is the position the user selected in the displayed
\* table (1 is the first row; 0: none selected); the row is looked up at
\* that position of the full table
DrillDown(df, row) ==
    IF row = 0 THEN NoDrill
    ELSE LET selected_repo == df.data[row]
             checks == [k \in 1..(Len(df.columns) - 5) |-> 3 + k]
             failed == SelectSeq(checks, LAMBDA j : selected_repo[j] = TRUE)
         IN  [shown |-> TRUE,
              repository |-> selected_repo[ColumnIndex(df, "Repository")],
              type |-> selected_repo[ColumnIndex(df, "Repository Type")],
              url |-> selected_repo[ColumnIndex(df, "URL")],
              rules |-> [k \in 1..Len(failed) |-> df.columns[failed[k]]]]

NoTable == [columns |-> <<>>, data |-> <<>>]

NoRepoView ==
    [status |-> "none", selected_rules |-> <<>>, repository_type |-> "all",
     row |-> 0, table |-> NoTable, metrics |-> NoMetrics,
     noncompliant |-> <<>>, drill |-> NoDrill]

\* what the tab shows for the widget inputs.  With no row retained the mean
\* of line 251 is NaN and int() raises: the pass ends there.
RepositoryTab(df, selected_rules, repository_type, row) ==
    LET base == [NoRepoView EXCEPT !.selected_rules = selected_rules,
                                   !.repository_type = repository_type]
    IN  IF Len(selected_rules) = 0
        THEN [base EXCEPT !.status = "prompt"]
        ELSE LET table == ComplianceTable(df, selected_rules, repository_type)
             IN  IF Len(table.data) = 0
                 THEN [base EXCEPT !.status = "fault", !.table = table]
                 ELSE [base EXCEPT !.status = "ok", !.table = table,
                          !.row = row,
                          !.metrics = Metrics(table, selected_rules),
                          !.noncompliant = NonCompliantTable(table),
                          !.drill = DrillDown(table, row)]

\* the rows the user can select: those of the displayed table
SelectableRows(df, selected_rules, repository_type) ==
    IF Len(selected_rules) = 0 THEN {0}
    ELSE 0..Len(NonCompliantTable(
                   ComplianceTable(df, selected_rules, repository_type)))

\* The tab is a function of the table and of the widget inputs of the pass,
\* so one pass per table and input is looked at.
RenderRepositoryTab ==
    /\ repo_view.status = "none"
    /\ \E selected_rules \in Selections, repository_type \in TypeOptions :
       \E row \in SelectableRows(df_repositories, selected_rules, repository_type) :
          /\ repo_view' = RepositoryTab(df_repositories, selected_rules,
                                        repository_type, row)
          /\ UNCHANGED <<clock, cache, history, session_state, widget, last,
                         df_repositories, df_dependabot, dep_view>>

RepoNames == 1..MaxRepos

RepoRows ==
    {<<n, t, UrlOf(n)>> \o checks :
        n \in RepoNames, t \in RepositoryTypes,
        checks \in [1..Len(rules) -> BOOLEAN]}

\* the repository tables: one row per repository, at least one repository
RepoTables ==
    {[columns |-> <<"repository", "repository_type", "url">> \o rules, data |-> d] :
        d \in {s \in UNION {[1..n -> RepoRows] : n \in 1..MaxRepos} :
                  \A i, j \in 1..Len(s) : i # j => s[i][1] # s[j][1]}}

(***************************************************************************)
(* The Dependabot section of the SLO Analysis tab, lines 346-441, on the   *)
(* alert table as line 350 leaves it.  A row is <<Repository Name, Type,   *)
(* Dependency, Advisory, Severity, Days Open, Link>>.                      *)
(***************************************************************************)
MaxAlerts == 2

Severities == {"critical", "high", "medium", "low"}

dependabot_columns ==
    <<"Repository Name", "Type", "Dependency", "Advisory", "Severity",
      "Days Open", "Link">>

\* line 356: the largest of Days Open, the upper end of the slider
MaxOf(values) == CHOOSE m \in values : \A v \in values : v <= m

slider_max(df) ==
    MaxOf({df.data[i][ColumnIndex(df, "Days Open")] : i \in 1..Len(df.data)})

\* line 361: Severity.isin(severity) & (Days Open >= minimum_days)
FilterAlerts(df, severity, minimum_days) ==
    LET sev  == ColumnIndex(df, "Severity")
        days == ColumnIndex(df, "Days Open")
    IN  [df EXCEPT !.data =
            SelectSeq(df.data,
                LAMBDA row : row[sev] \in severity /\ row[days] >= minimum_days)]

\* a mutant of SeverityWeight: the weights of high and medium exchanged
SeverityWeightSwapped(sev) ==
    CASE sev = "critical" -> 4
      [] sev = "high" -> 2
      [] sev = "medium" -> 3
      [] sev = "low" -> 1

\* line 368: {"critical": 4, "high": 3, "medium": 2, "low": 1}
SeverityWeight(sev) ==
    CASE sev = "critical" -> 4
      [] sev = "high" -> 3
      [] sev = "medium" -> 2
      [] sev = "low" -> 1

\* line 374: {4: "Critical", 3: "High", 2: "Medium", 1: "Low"}
WeightLabel(weight) ==
    CASE weight = 4 -> "Critical"
      [] weight = 3 -> "High"
      [] weight = 2 -> "Medium"
      [] weight = 1 -> "Low"

\* the lexical order of the repository types
TypeRank(t) ==
    CASE t = "internal" -> 1
      [] t = "private" -> 2
      [] t = "public" -> 3

KeyBefore(a, b) ==
    \/ a[1] < b[1]
    \/ a[1] = b[1] /\ TypeRank(a[2]) < TypeRank(b[2])

\* the group keys of groupby(["Repository Name", "Type"]), which sorts them
GroupKeys(df) ==
    LET name == ColumnIndex(df, "Repository Name")
        type == ColumnIndex(df, "Type")
        keys == {<<df.data[i][name], df.data[i][type]>> : i \in 1..Len(df.data)}
    IN  CHOOSE s \in [1..Cardinality(keys) -> keys] :
            \A i, j \in 1..Cardinality(keys) : i < j => KeyBefore(s[i], s[j])

\* line 371: agg({"Dependency": "count", "Severity Weight": "max",
\* "Days Open": "max"}).reset_index(), then lines 374-377: the label column
\* and the positional rename to <<Repository Name, Type, Number of Alerts,
\* Severity Weight, Max Days Open, Max Severity>>
GroupAlerts(df) ==
    LET keys == GroupKeys(df)
        name == ColumnIndex(df, "Repository Name")
        type == ColumnIndex(df, "Type")
        sevw == ColumnIndex(df, "Severity Weight")
        days == ColumnIndex(df, "Days Open")
        members(k) == {i \in 1..Len(df.data) :
                          df.data[i][name] = keys[k][1] /\ df.data[i][type] = keys[k][2]}
        weight(k) == MaxOf({df.data[i][sevw] : i \in members(k)})
    IN  [columns |-> <<"Repository Name", "Type", "Number of Alerts",
                       "Severity Weight", "Max Days Open", "Max Severity">>,
         data |-> [k \in 1..Len(keys) |->
                      <<keys[k][1], keys[k][2], Cardinality(members(k)), weight(k),
                        MaxOf({df.data[i][days] : i \in members(k)}),
                        WeightLabel(weight(k))>>]]

\* by = <<first, second>>, ascending = [False, False]; the sort is stable
DescBefore(df, by, a, b) ==
    LET c1 == ColumnIndex(df, by[1])
        c2 == ColumnIndex(df, by[2])
    IN  \/ a[c1] > b[c1]
        \/ a[c1] = b[c1] /\ a[c2] > b[c2]

RECURSIVE InsertDesc(_, _, _, _)
InsertDesc(df, by, sorted, row) ==
    IF sorted = <<>> THEN <<row>>
    ELSE IF DescBefore(df, by, row, Head(sorted)) THEN <<row>> \o sorted
    ELSE <<Head(sorted)>> \o InsertDesc(df, by, Tail(sorted), row)

RECURSIVE SortDescRows(_, _, _, _)
SortDescRows(df, by, sorted, i) ==
    IF i > Len(df.data) THEN sorted
    ELSE SortDescRows(df, by, InsertDesc(df, by, sorted, df.data[i]), i + 1)

sort_values_desc(df, by) == [df EXCEPT !.data = SortDescRows(df, by, <<>>, 1)]

\* lines 361-380: the filtered alerts and the grouped table
FilteredAlerts(df, severity, repo_type, minimum_days) ==
    LET by_sev  == FilterAlerts(df, severity, minimum_days)
        by_type == FilterByType(by_sev, "Type", repo_type)
    IN  WithColumn(by_type, "Severity Weight",
            [i \in 1..Len(by_type.data) |->
                SeverityWeight(by_type.data[i][ColumnIndex(by_type, "Severity")])])

GroupedAlerts(filtered) ==
    sort_values_desc(GroupAlerts(filtered), <<"Severity Weight", "Max Days Open">>)

\* lines 401-405
AlertMetrics(grouped) ==
    LET n == Len(grouped.data)
        total == SumSeq([i \in 1..n |-> Cell(grouped, i, "Number of Alerts")], 1)
    IN  [total_alerts |-> total,
         average_days_open |->
            RoundHalfEven(SumSeq([i \in 1..n |-> Cell(grouped, i, "Max Days Open")], 1), n),
         repositories |-> n,
         alerts_per_repository |-> RoundHalfEven(total, n)]

NoAlertMetrics ==
    [total_alerts |-> 0, average_days_open |-> 0, repositories |-> 0,
     alerts_per_repository |-> 0]

\* lines 416-434: the alerts of the repository of the selected group row
AlertDrillDown(filtered, grouped, row) ==
         LET name == Cell(grouped, row, "Repository Name")
             of_repo == [filtered EXCEPT !.data =
                            SelectSeq(filtered.data,
                                LAMBDA r : r[ColumnIndex(filtered, "Repository Name")] = name)]
             sorted == sort_values_desc(of_repo, <<"Severity Weight", "Days Open">>)
         IN  TakeColumns(sorted,
                 [k \in 1..6 |-> ColumnIndex(sorted,
                     <<"Repository Name", "Dependency", "Advisory", "Severity",
                       "Days Open", "Link">>[k])]).data

NoDepView ==
    [status |-> "none", severity |-> {}, repo_type |-> "all", minimum_days |-> 0,
     grouped |-> NoTable, metrics |-> NoAlertMetrics, drill |-> <<>>]

\* what the section shows for the widget inputs; drill[row] is what it shows
\* below the table when the user has selected that row of it.  With no
\* group the mean of line 402 is NaN and int() raises: the pass ends there.
DependabotSection(df, severity, repo_type, minimum_days) ==
    LET base == [NoDepView EXCEPT !.severity = severity, !.repo_type = repo_type,
                                  !.minimum_days = minimum_days]
    IN  IF Cardinality(severity) = 0
        THEN [base EXCEPT !.status = "prompt"]
        ELSE LET filtered == FilteredAlerts(df, severity, repo_type, minimum_days)
                 grouped == GroupedAlerts(filtered)
             IN  IF Len(grouped.data) = 0
                 THEN [base EXCEPT !.status = "fault", !.grouped = grouped]
                 ELSE [base EXCEPT !.status = "ok", !.grouped = grouped,
                          !.metrics = AlertMetrics(grouped),
                          !.drill = [row \in 1..Len(grouped.data) |->
                                        AlertDrillDown(filtered, grouped, row)]]

\* The section is a function of the table and of the widget inputs of the
\* pass, so one pass per table and input is looked at.
RenderDependabotSection ==
    /\ dep_view.status = "none"
    /\ \E severity \in SUBSET Severities, repo_type \in TypeOptions,
          minimum_days \in 0..slider_max(df_dependabot) :
          /\ dep_view' = DependabotSection(df_dependabot, severity, repo_type,
                                           minimum_days)
          /\ UNCHANGED <<clock, cache, history, session_state, widget, last,
                         df_repositories, repo_view, df_dependabot>>

\* the alerts of the store: two repositories, one of them with alerts under
\* two types, open for 0 or 1 days
AlertKeys == {<<1, "public">>, <<1, "private">>, <<2, "public">>}
DaysOpenValues == {0, 1}

AlertRows ==
    {<<k[1], k[2], "dependency", "advisory", sev, d, "link">> :
        k \in AlertKeys, sev \in Severities, d \in DaysOpenValues}

AlertTables ==
    {[columns |-> dependabot_columns, data |-> d] :
        d \in UNION {[1..n -> AlertRows] : n \in 1..MaxAlerts}}

(***************************************************************************)
(* The specifications.  Each starts the variables of the other two at a    *)
(* fixed value and leaves them alone.                                      *)
(***************************************************************************)
Init ==
    /\ clock = 0
    /\ cache = [k \in BucketKeys |-> NotCached]
    /\ history = [k \in BucketKeys |-> NoHistory]
    /\ session_state = Unset
    /\ widget = Unregistered
    /\ last = NoPass
    /\ df_repositories = NoTable
    /\ repo_view = NoRepoView
    /\ df_dependabot = NoTable
    /\ dep_view = NoDepView

Next ==
    \/ Tick
    \/ Render

Spec == Init /\ [][Next]_vars

RepoInit ==
    /\ clock = 0
    /\ cache = [k \in BucketKeys |-> NotCached]
    /\ history = [k \in BucketKeys |-> NoHistory]
    /\ session_state = Unset
    /\ widget = Unregistered
    /\ last = NoPass
    /\ df_repositories \in RepoTables
    /\ repo_view = NoRepoView
    /\ df_dependabot = NoTable
    /\ dep_view = NoDepView

RepoNext == RenderRepositoryTab

RepoSpec == RepoInit /\ [][RepoNext]_vars

SloInit ==
    /\ clock = 0
    /\ cache = [k \in BucketKeys |-> NotCached]
    /\ history = [k \in BucketKeys |-> NoHistory]
    /\ session_state = Unset
    /\ widget = Unregistered
    /\ last = NoPass
    /\ df_repositories = NoTable
    /\ repo_view = NoRepoView
    /\ df_dependabot \in AlertTables
    /\ dep_view = NoDepView

SloNext == RenderDependabotSection

SloSpec == SloInit /\ [][SloNext]_vars

(***************************************************************************)
(* Claims about the render pass, checked under Spec.                       *)
(***************************************************************************)
CalledKeys(calls) == [i \in 1..Len(calls) |-> calls[i].key]

\* C1: load_data fetches only on the first render pass of a bucket key: a
\* later pass of the same key makes no fetch and gets the same three
\* datasets, and the first pass of a key makes exactly one fetch of each of
\* repositories.json, secret_scanning.json and dependabot.json.
C1_FetchOncePerBucket ==
    last.ran =>
        IF last.prior.ran
        THEN last.calls = <<>> /\ last.value = last.prior.value
        ELSE CalledKeys(last.calls) = object_names

\* the datasets of the pass whose fetch failed, in fetch order
FailedFetches(pass) ==
    IF pass.calls # <<>>
    THEN SelectSeqBy(CalledKeys(pass.calls),
                     {pass.calls[i].key : i \in {j \in 1..Len(pass.calls) :
                                                    pass.calls[j].failure # "none"}}, 1)
    ELSE SelectSeqBy(object_names,
                     {pass.value[i].key : i \in {j \in 1..Len(pass.value) :
                                                    pass.value[j].kind = "str"}}, 1)

\* C2: a render pass one of whose dataset fetches failed shows the failure
\* message of the first failed dataset (in the order repositories, secret
\* scanning, dependency alerts) and renders no part of the dashboard.
C2_FailFastFirstError ==
    (last.ran /\ FailedFetches(last) # <<>>) =>
        /\ last.outcome # "dashboard"
        /\ last.message.shown_by # "none"
        /\ last.message.key = FailedFetches(last)[1]

\* C3: whatever the failure of a fetch, get_table_from_s3 returns the error
\* string naming the key and raises nothing.
C3_ErrorValueNeverRaises ==
    \A i \in 1..Len(last.calls) :
        last.calls[i].failure # "none" =>
            /\ last.calls[i].kind = "str"
            /\ last.calls[i].key = object_names[i]

\* C4: in a pass caused by pressing a preset button, the rule selection the
\* compliance view uses is exactly the preset's rules, whatever presses and
\* manual edits came before.
C4_PresetReplacesSelection ==
    /\ (last.outcome = "dashboard" /\ last.event = "security") =>
          Range(last.selected_rules) =
             {rulemap[i].name : i \in {j \in 1..Len(rulemap) : rulemap[j].is_security_rule}}
    /\ (last.outcome = "dashboard" /\ last.event = "policy") =>
          Range(last.selected_rules) =
             {rulemap[i].name : i \in {j \in 1..Len(rulemap) : rulemap[j].is_policy_rule}}

\* C9: once a pass of a bucket has fetched with a fetch returning the error
\* value, every later pass of the same bucket makes no fetch and shows the
\* same error.
C9_FailureMemoized ==
    (last.ran /\ last.prior.ran /\ last.prior.error_value) =>
        /\ last.calls = <<>>
        /\ last.message = last.prior.message

(***************************************************************************)
(* Claims about the Repository Analysis tab, checked under RepoSpec.       *)
(***************************************************************************)
\* whether the repository table says that the repository breaks the rule
Breaks(name, rule) ==
    \E i \in 1..Len(df_repositories.data) :
        /\ df_repositories.data[i][1] = name
        /\ \E k \in 1..Len(rules) : rules[k] = rule /\ df_repositories.data[i][3 + k]

BrokenRules(name, selected) == {s \in Range(selected) : Breaks(name, s)}

Retained(repository_type) ==
    {df_repositories.data[i][1] : i \in {j \in 1..Len(df_repositories.data) :
        repository_type = "all" \/ df_repositories.data[j][2] = repository_type}}

\* C5: the drill-down of a selected non-compliant row lists exactly the
\* selected rules that the repository breaks, whatever the order in which
\* the rules were selected, and links to the repository's URL.
C5_DrillDownListsBrokenRules ==
    repo_view.drill.shown =>
        /\ Range(repo_view.drill.rules) =
              BrokenRules(repo_view.drill.repository, repo_view.selected_rules)
        /\ repo_view.drill.url = UrlOf(repo_view.drill.repository)

\* C6: with a non-empty selection S the table holds the repositories of the
\* chosen type, and for each of them rules_broken is the number of rules of
\* S it breaks and is_compliant says that this number is 0.
C6_DerivedColumns ==
    repo_view.status \in {"ok", "fault"} =>
        LET t == repo_view.table
        IN  /\ {t.data[i][1] : i \in 1..Len(t.data)} = Retained(repo_view.repository_type)
            /\ Len(t.data) = Cardinality(Retained(repo_view.repository_type))
            /\ \A i \in 1..Len(t.data) :
                  LET n == Cardinality(BrokenRules(t.data[i][1], repo_view.selected_rules))
                  IN  /\ Cell(t, i, "Rules Broken") = n
                      /\ Cell(t, i, "Is Compliant") = (n = 0)

C6_Witness ==
    /\ repo_view.status = "ok"
    /\ Len(repo_view.selected_rules) = 1
    /\ \E i \in 1..Len(repo_view.table.data) :
          /\ Cell(repo_view.table, i, "Is Compliant")
          /\ \E r \in Range(rules) : Breaks(repo_view.table.data[i][1], r)
    /\ \E i \in 1..Len(repo_view.table.data) : Cell(repo_view.table, i, "Rules Broken") = 1

\* C8: the table is ordered by rules_broken descending, then repository
\* ascending; the displayed non-compliant rows are its first rows, so the
\* position selected in the display is the same repository in the table.
C8_SortedPrefix ==
    repo_view.status = "ok" =>
        LET t == repo_view.table
            shown == repo_view.noncompliant
        IN  /\ \A i, j \in 1..Len(t.data) :
                  i < j =>
                     \/ Cell(t, i, "Rules Broken") > Cell(t, j, "Rules Broken")
                     \/ /\ Cell(t, i, "Rules Broken") = Cell(t, j, "Rules Broken")
                        /\ Cell(t, i, "Repository") < Cell(t, j, "Repository")
            /\ Len(shown) = Cardinality({i \in 1..Len(t.data) :
                                            ~Cell(t, i, "Is Compliant")})
            /\ \A i \in 1..Len(shown) : shown[i][1] = Cell(t, i, "Repository")
            /\ repo_view.drill.shown =>
                  repo_view.drill.repository = shown[repo_view.row][1]

C8_Witness ==
    /\ repo_view.status = "ok"
    /\ Len(repo_view.noncompliant) = 2
    /\ repo_view.row = 2
    /\ repo_view.drill.shown
    /\ repo_view.table.data[1][1] # df_repositories.data[1][1]
    /\ repo_view.table.data[1][1] > repo_view.table.data[2][1]

\* C10: with a non-empty rule selection the tab renders its summary metrics
\* without a fault, also when the type filter retains no repository.
C10_NoFaultOnEmptyFilter ==
    (repo_view.status # "none" /\ Len(repo_view.selected_rules) # 0) =>
        repo_view.status = "ok"

(***************************************************************************)
(* Claims about the Dependabot section, checked under SloSpec.             *)
(***************************************************************************)
\* the alerts of the table that pass the filters of the view, by position
PassingAlerts(view) ==
    {i \in 1..Len(df_dependabot.data) :
        /\ df_dependabot.data[i][5] \in view.severity
        /\ df_dependabot.data[i][6] >= view.minimum_days
        /\ (view.repo_type = "all" \/ df_dependabot.data[i][2] = view.repo_type)}

SeverityOrder == <<"low", "medium", "high", "critical">>
SeverityLabels == <<"Low", "Medium", "High", "Critical">>

\* the label of the highest of a non-empty set of severities
HighestLabel(sevs) ==
    SeverityLabels[CHOOSE p \in 1..4 :
                      /\ SeverityOrder[p] \in sevs
                      /\ \A q \in (p + 1)..4 : SeverityOrder[q] \notin sevs]

\* C7: the grouped table has one row per (repository name, type) with an
\* alert passing the filters; its max severity is the highest severity of
\* the passing alerts of the group and its count is their number.
C7_GroupMaxSeverity ==
    dep_view.status \in {"ok", "fault"} =>
        LET g == dep_view.grouped
            passing == PassingAlerts(dep_view)
            of(name, type) == {i \in passing : /\ df_dependabot.data[i][1] = name
                                               /\ df_dependabot.data[i][2] = type}
        IN  /\ {<<g.data[k][1], g.data[k][2]>> : k \in 1..Len(g.data)} =
                  {<<df_dependabot.data[i][1], df_dependabot.data[i][2]>> : i \in passing}
            /\ \A k, m \in 1..Len(g.data) :
                  k # m => <<g.data[k][1], g.data[k][2]>> # <<g.data[m][1], g.data[m][2]>>
            /\ \A k \in 1..Len(g.data) :
                  /\ Cell(g, k, "Number of Alerts") =
                        Cardinality(of(g.data[k][1], g.data[k][2]))
                  /\ Cell(g, k, "Max Severity") =
                        HighestLabel({df_dependabot.data[i][5] :
                                         i \in of(g.data[k][1], g.data[k][2])})

C7_Witness ==
    /\ dep_view.status = "ok"
    /\ \E k \in 1..Len(dep_view.grouped.data) :
          /\ Cell(dep_view.grouped, k, "Number of Alerts") = 2
          /\ Cell(dep_view.grouped, k, "Max Severity") = "High"
          /\ df_dependabot.data[1][5] = "medium"
          /\ df_dependabot.data[2][5] = "high"

====
